---- MODULE Spec2Model ----
(***************************************************************************)
(* A model of the uciengine crate: the bounded text cells generated by     *)
(* gen_str_buff!, the AnalysisInfo record, its token-driven parser and its *)
(* serde adapter (src/src/analysis.rs), and the driver of the engine       *)
(* subprocess with its Go Job (src/src/uciengine.rs).                      *)
(*                                                                         *)
(* Text is a TLA+ string of ASCII characters, so a byte and a char are the *)
(* same thing; a cell (UciBuff, PvBuff) is modelled by the text            *)
(* buff[0..len], which is all that its methods and conversions read.       *)
(* Numbers are kept as canonical decimal numerals ("0", "12", "-5",         *)
(* "3000000000"): u64 and usize values do not fit the model checker's      *)
(* integers, and the numerals keep the widths of the Rust types exact.     *)
(***************************************************************************)
EXTENDS Integers, Sequences, FiniteSets, TLC

(***************************************************************************)
(* Bounds of the model.                                                    *)
(***************************************************************************)
\* tokens of an enumerated line (the lines of the examples are longer)
MaxTokens == 4
\* length of the enumerated texts handed to the cell operations
MaxLen == 6
\* cell capacities 1..MaxCap are tried beside those of UciBuff and PvBuff
MaxCap == 9
\* builder calls that make one Go Job
MaxBuild == 2
\* go arguments of one Go Job
MaxGoKeys == 4
\* go calls on one engine
MaxCalls == 2
\* lines the subprocess writes to its output
MaxOut == 2

(***************************************************************************)
(* Program constants.                                                      *)
(***************************************************************************)
UCI_MAX_LENGTH == 5
UCI_TYPICAL_LENGTH == 4
\* MAX_PV_MOVES under cfg(not(test)) and under cfg(test)
MAX_PV_MOVES_BUILD == 10
MAX_PV_MOVES_TEST == 2
PV_BUFF_SIZE(max_pv_moves) == max_pv_moves * (UCI_TYPICAL_LENGTH + 1)

(***************************************************************************)
(* Text helpers.                                                           *)
(***************************************************************************)
Char(s, i) == SubSeq(s, i, i)

Prefix(s, n) == SubSeq(s, 1, n)

\* str::split(" "): the pieces between single spaces, empty pieces included;
\* the empty text splits into one empty piece.
Split(s) ==
    LET spaces == {i \in 1..Len(s) : Char(s, i) = " "}
        \* the position of the k-th space; 0 and Len(s) + 1 close the text
        at(k) == IF k = 0 THEN 0
                 ELSE IF k > Cardinality(spaces) THEN Len(s) + 1
                 ELSE CHOOSE i \in spaces :
                          Cardinality({j \in spaces : j < i}) = k - 1
    IN [k \in 1..(Cardinality(spaces) + 1) |->
            SubSeq(s, at(k - 1) + 1, at(k) - 1)]

(***************************************************************************)
(* Bounded text cells (gen_str_buff!).                                     *)
(***************************************************************************)
Cell_new == ""

\* a set that copies the whole value, whatever the capacity
Cell_set_whole(value, size) == value

\* set / From<&str>: the first `size` bytes of the value
Cell_set(value, size) ==
    IF Len(value) > size THEN Prefix(value, size) ELSE value

Cell_from(value, size) == Cell_set(value, size)

Cell_reset == ""

\* From<Option<String>>: the conversion of the text, of the empty one for None
Cell_from_opt(value, size) ==
    Cell_from(IF value.some THEN value.value ELSE "", size)

\* From<$type> for String: the text of the bytes buff[0..len], which is how
\* a cell is represented here
String_from(cell) == Prefix(cell, Len(cell))

\* to_opt: None for an empty cell
None == [some |-> FALSE]
Some(v) == [some |-> TRUE, value |-> v]

\* a to_opt that has no None
Cell_to_opt_some(cell) == Some(String_from(cell))

Cell_to_opt(cell) == IF Len(cell) = 0 THEN None ELSE Some(String_from(cell))

\* The take_while closure of set_trim on chars().rev(): each char it is
\* handed decrements total_len first, then is kept while it is not the
\* separator or total_len is still above the capacity; the first char that
\* fails the test ends the scan (its decrement stays).
RECURSIVE TrimScan(_, _, _, _)
TrimScan(value, trim, size, total_len) ==
    IF total_len = 0 THEN 0
    ELSE LET c == Char(value, total_len)
             t == total_len - 1
         IN IF (c # trim) \/ (t > size) THEN TrimScan(value, trim, size, t)
            ELSE t

Cell_set_trim(value, trim, size) ==
    Prefix(value, TrimScan(value, trim, size, Len(value)))

(***************************************************************************)
(* str::parse for the integer types (core::num): an optional sign, "+" for *)
(* every type and "-" for the signed ones only, then at least one decimal  *)
(* digit and nothing else; a value outside the type's range is an error.   *)
(* The value is returned as its canonical numeral.                         *)
(***************************************************************************)
Digits == "0123456789"

IsDigit(c) == \E i \in 1..10 : Char(Digits, i) = c

DigitVal(c) == CHOOSE i \in 0..9 : Char(Digits, i + 1) = c

AllDigits(s) == \A i \in 1..Len(s) : IsDigit(Char(s, i))

RECURSIVE StripZeros(_)
StripZeros(s) ==
    IF Len(s) > 1 /\ Char(s, 1) = "0" THEN StripZeros(SubSeq(s, 2, Len(s)))
    ELSE s

\* a < b for two numerals of the same length, digit by digit
RECURSIVE LexLess(_, _)
LexLess(a, b) ==
    IF Len(a) = 0 THEN FALSE
    ELSE LET x == DigitVal(Char(a, 1))
             y == DigitVal(Char(b, 1))
         IN IF x < y THEN TRUE
            ELSE IF x > y THEN FALSE
            ELSE LexLess(SubSeq(a, 2, Len(a)), SubSeq(b, 2, Len(b)))

\* a <= b for two canonical unsigned numerals
NumLeq(a, b) ==
    \/ Len(a) < Len(b)
    \/ Len(a) = Len(b) /\ (a = b \/ LexLess(a, b))

U64_MAX == "18446744073709551615"
USIZE_MAX == U64_MAX
I32_MAX == "2147483647"
I32_MIN_MAGNITUDE == "2147483648"

ParseFail == [ok |-> FALSE]
ParseOk(v) == [ok |-> TRUE, val |-> v]

ParseUnsigned(token, max) ==
    LET digits == IF Len(token) > 1 /\ Char(token, 1) = "+"
                  THEN SubSeq(token, 2, Len(token)) ELSE token
    IN IF Len(digits) = 0 \/ ~AllDigits(digits) THEN ParseFail
       ELSE LET v == StripZeros(digits)
            IN IF NumLeq(v, max) THEN ParseOk(v) ELSE ParseFail

ParseSigned(token, max, minMagnitude) ==
    LET signed == Len(token) > 1 /\ Char(token, 1) \in {"+", "-"}
        negative == signed /\ Char(token, 1) = "-"
        digits == IF signed THEN SubSeq(token, 2, Len(token)) ELSE token
    IN IF Len(digits) = 0 \/ ~AllDigits(digits) THEN ParseFail
       ELSE LET v == StripZeros(digits)
            IN IF negative
               THEN IF ~NumLeq(v, minMagnitude) THEN ParseFail
                    ELSE ParseOk(IF v = "0" THEN v ELSE "-" \o v)
               ELSE IF NumLeq(v, max) THEN ParseOk(v) ELSE ParseFail

parse_usize(token) == ParseUnsigned(token, USIZE_MAX)
parse_u64(token) == ParseUnsigned(token, U64_MAX)
parse_i32(token) == ParseSigned(token, I32_MAX, I32_MIN_MAGNITUDE)

(***************************************************************************)
(* AnalysisInfo and the results of parse.                                  *)
(***************************************************************************)
Cp(n) == [kind |-> "Cp", value |-> n]
Mate(n) == [kind |-> "Mate", value |-> n]

AnalysisInfo_new ==
    [done |-> FALSE,
     bestmove |-> Cell_new,
     ponder |-> Cell_new,
     pv |-> Cell_new,
     depth |-> "0",
     seldepth |-> "0",
     time |-> "0",
     nodes |-> "0",
     multipv |-> "0",
     score |-> Cp("0"),
     currmove |-> Cell_new,
     currmovenumber |-> "0",
     hashfull |-> "0",
     nps |-> "0",
     tbhits |-> "0",
     cpuload |-> "0",
     scoretype |-> "Exact",
     wdl |-> [win |-> "0", draw |-> "0", loss |-> "0"]]

\* the accessors of the text fields
bestmove(r) == Cell_to_opt(r.bestmove)
ponder(r) == Cell_to_opt(r.ponder)
pv(r) == Cell_to_opt(r.pv)
currmove(r) == Cell_to_opt(r.currmove)

\* to_serde: the text cells as options, the other fields as they are
to_serde(r) ==
    [disposition |-> "AnalysisInfo",
     done |-> r.done,
     bestmove |-> bestmove(r),
     ponder |-> ponder(r),
     pv |-> pv(r),
     depth |-> r.depth,
     seldepth |-> r.seldepth,
     time |-> r.time,
     nodes |-> r.nodes,
     multipv |-> r.multipv,
     score |-> r.score,
     currmove |-> currmove(r),
     currmovenumber |-> r.currmovenumber,
     hashfull |-> r.hashfull,
     nps |-> r.nps,
     tbhits |-> r.tbhits,
     cpuload |-> r.cpuload,
     scoretype |-> r.scoretype,
     wdl |-> r.wdl]

\* a from_serde that builds the pv as a move-sized cell
from_serde_pv_as_move(s, size) ==
    [done |-> s.done,
     bestmove |-> Cell_from_opt(s.bestmove, UCI_MAX_LENGTH),
     ponder |-> Cell_from_opt(s.ponder, UCI_MAX_LENGTH),
     pv |-> Cell_from_opt(s.pv, UCI_MAX_LENGTH),
     depth |-> s.depth,
     seldepth |-> s.seldepth,
     time |-> s.time,
     nodes |-> s.nodes,
     multipv |-> s.multipv,
     score |-> s.score,
     currmove |-> Cell_from_opt(s.currmove, UCI_MAX_LENGTH),
     currmovenumber |-> s.currmovenumber,
     hashfull |-> s.hashfull,
     nps |-> s.nps,
     tbhits |-> s.tbhits,
     cpuload |-> s.cpuload,
     scoretype |-> s.scoretype,
     wdl |-> s.wdl]

\* from_serde: UciBuff::from and PvBuff::from of the options (size is
\* PV_BUFF_SIZE), the other fields as they are
from_serde(s, size) ==
    [done |-> s.done,
     bestmove |-> Cell_from_opt(s.bestmove, UCI_MAX_LENGTH),
     ponder |-> Cell_from_opt(s.ponder, UCI_MAX_LENGTH),
     pv |-> Cell_from_opt(s.pv, size),
     depth |-> s.depth,
     seldepth |-> s.seldepth,
     time |-> s.time,
     nodes |-> s.nodes,
     multipv |-> s.multipv,
     score |-> s.score,
     currmove |-> Cell_from_opt(s.currmove, UCI_MAX_LENGTH),
     currmovenumber |-> s.currmovenumber,
     hashfull |-> s.hashfull,
     nps |-> s.nps,
     tbhits |-> s.tbhits,
     cpuload |-> s.cpuload,
     scoretype |-> s.scoretype,
     wdl |-> s.wdl]

Running == [kind |-> "Running"]
Ok == [kind |-> "Ok"]
\* the number error tagged with the state the parser goes to next
ParseNumberError_next_state(state, value) ==
    [kind |-> "ParseNumberError", state |-> "Key", value |-> value]

ParseNumberError(state, value) ==
    [kind |-> "ParseNumberError", state |-> state, value |-> value]
InvalidKeyError(value) == [kind |-> "InvalidKeyError", value |-> value]
InvalidScoreSpecifier(value) ==
    [kind |-> "InvalidScoreSpecifier", value |-> value]

IsErr(r) ==
    r.kind \in {"ParseNumberError", "InvalidKeyError", "InvalidScoreSpecifier"}

(***************************************************************************)
(* The arms of the dispatch loop of parse.  A parser state st is the       *)
(* record being filled and the locals of parse:                            *)
(*   [ai, ps, pv_buff, pv_on, ret], ret = Running until parse returns.     *)
(***************************************************************************)
ParseStart(r) ==
    [ai |-> r, ps |-> "Info", pv_buff |-> "", pv_on |-> FALSE, ret |-> Running]

Return(st, result) == [st EXCEPT !.ret = result]

\* ParsingState::Info
InfoArm(st, token) ==
    IF token = "info" THEN [st EXCEPT !.ps = "Key"]
    ELSE Return(st, Ok)

Unsupported == {"string", "refutation", "currline"}

BoundWords == {"lowerbound", "upperbound"}

BoundOf(token) == IF token = "lowerbound" THEN "Lowerbound" ELSE "Upperbound"

\* the keys that select a value state
KeyState ==
    [depth |-> "Depth", seldepth |-> "Seldepth", time |-> "Time",
     nodes |-> "Nodes", multipv |-> "Multipv", score |-> "Score",
     wdl |-> "WdlW", currmove |-> "Currmove",
     currmovenumber |-> "Currmovenumber", hashfull |-> "Hashfull",
     nps |-> "Nps", tbhits |-> "Tbhits", cpuload |-> "Cpuload",
     pv |-> "PvBestmove"]

Keys == DOMAIN KeyState

\* the `_` arm of the key match: an unknown key is skipped with its
\* argument when the toggle allows it, and an error otherwise
UnknownKey_skip(st, token, allow_unknown_key) == [st EXCEPT !.ps = "Unknown"]

UnknownKey(st, token, allow_unknown_key) ==
    IF allow_unknown_key THEN [st EXCEPT !.ps = "Unknown"]
    ELSE Return(st, InvalidKeyError(token))

\* ps = match token { ... }, then the reset of scoretype after the key score
KeySelect(st, token, allow_unknown_key) ==
    IF token \in BoundWords
    THEN [st EXCEPT !.ai.scoretype = BoundOf(token)]
    ELSE IF token \in Keys
         THEN [st EXCEPT !.ps = KeyState[token],
                         !.ai.scoretype =
                             IF KeyState[token] = "Score" THEN "Exact" ELSE @]
    ELSE UnknownKey(st, token, allow_unknown_key)

\* the unsupported keys leaving the loop instead of the function, so that
\* the commit of the pv text still runs
KeyArm_break(st, token, allow_unknown_key) ==
    IF token \in Unsupported THEN Return([st EXCEPT !.ai.pv = Cell_new], Ok)
    ELSE KeySelect(st, token, allow_unknown_key)

\* ParsingState::Key
KeyArm(st, token, allow_unknown_key) ==
    IF token \in Unsupported THEN Return(st, Ok)
    ELSE KeySelect(st, token, allow_unknown_key)

\* a Score arm in which the specifier sets the bound kind to exact
ScoreArm_sets_exact(st, token) ==
    IF token = "cp"
    THEN [st EXCEPT !.ps = "ScoreCp", !.ai.scoretype = "Exact"]
    ELSE IF token = "mate"
    THEN [st EXCEPT !.ps = "ScoreMate", !.ai.scoretype = "Exact"]
    ELSE IF token \in BoundWords
         THEN [st EXCEPT !.ai.scoretype = BoundOf(token)]
    ELSE Return(st, InvalidScoreSpecifier(token))

\* ParsingState::Score
ScoreArm(st, token) ==
    IF token = "cp" THEN [st EXCEPT !.ps = "ScoreCp"]
    ELSE IF token = "mate" THEN [st EXCEPT !.ps = "ScoreMate"]
    ELSE IF token \in BoundWords
         THEN [st EXCEPT !.ai.scoretype = BoundOf(token)]
    ELSE Return(st, InvalidScoreSpecifier(token))

\* ParsingState::Unknown
UnknownArm(st, token) == [st EXCEPT !.ps = "Key"]

\* the value states that store one number and the type the token is parsed as
NumberField ==
    [Depth |-> "depth", Seldepth |-> "seldepth", Time |-> "time",
     Nodes |-> "nodes", Multipv |-> "multipv",
     Currmovenumber |-> "currmovenumber", Hashfull |-> "hashfull",
     Nps |-> "nps", Tbhits |-> "tbhits", Cpuload |-> "cpuload"]

ParseFor(state, token) ==
    IF state \in {"Nodes", "Nps", "Tbhits", "WdlW", "WdlD", "WdlL"}
    THEN parse_u64(token)
    ELSE parse_usize(token)

\* ScoreCp / ScoreMate without the bound words: every token is a number
ScoreValue_number_only(st, token, variant) ==
    LET n == parse_i32(token)
    IN IF n.ok
       THEN [st |-> [st EXCEPT !.ai.score = [kind |-> variant, value |-> n.val]],
             keep_state |-> FALSE]
       ELSE [st |-> Return(st, ParseNumberError(st.ps, token)),
             keep_state |-> FALSE]

\* ParsingState::ScoreCp and ParsingState::ScoreMate: a bound word sets the
\* score type and keeps the state, any other token is the score
ScoreValue(st, token, variant) ==
    LET n == parse_i32(token)
    IN IF token \in BoundWords
       THEN [st |-> [st EXCEPT !.ai.scoretype = BoundOf(token)],
             keep_state |-> TRUE]
       ELSE IF n.ok
       THEN [st |-> [st EXCEPT !.ai.score = [kind |-> variant, value |-> n.val]],
             keep_state |-> FALSE]
       ELSE [st |-> Return(st, ParseNumberError(st.ps, token)),
             keep_state |-> FALSE]

\* the inner match of the value arm: the parser state it leaves and keep_state
ValueMatch(st, token) ==
    LET n == ParseFor(st.ps, token)
        fail == [st |-> Return(st, ParseNumberError(st.ps, token)),
                 keep_state |-> FALSE]
        leave(s) == [st |-> s, keep_state |-> FALSE]
        keep(s) == [st |-> s, keep_state |-> TRUE]
    IN CASE st.ps \in DOMAIN NumberField ->
              IF n.ok THEN leave([st EXCEPT !.ai[NumberField[st.ps]] = n.val])
              ELSE fail
         [] st.ps = "WdlW" ->
              IF n.ok THEN keep([st EXCEPT !.ai.wdl.win = n.val, !.ps = "WdlD"])
              ELSE fail
         [] st.ps = "WdlD" ->
              IF n.ok THEN keep([st EXCEPT !.ai.wdl.draw = n.val, !.ps = "WdlL"])
              ELSE fail
         [] st.ps = "WdlL" ->
              IF n.ok THEN leave([st EXCEPT !.ai.wdl.loss = n.val])
              ELSE fail
         [] st.ps = "ScoreCp" -> ScoreValue(st, token, "Cp")
         [] st.ps = "ScoreMate" -> ScoreValue(st, token, "Mate")
         [] st.ps = "Currmove" ->
              leave([st EXCEPT !.ai.currmove = Cell_set(token, UCI_MAX_LENGTH)])
         [] st.ps = "PvBestmove" ->
              leave([st EXCEPT !.pv_buff = @ \o token,
                               !.ai.bestmove = Cell_from(token, UCI_MAX_LENGTH),
                               !.ai.ponder = Cell_reset,
                               !.pv_on = TRUE,
                               !.ps = "PvPonder"])
         [] st.ps = "PvPonder" ->
              leave([st EXCEPT !.pv_buff = @ \o " " \o token,
                               !.ai.ponder = Cell_from(token, UCI_MAX_LENGTH),
                               !.ps = "PvRest"])
         [] st.ps = "PvRest" ->
              leave([st EXCEPT !.pv_buff = @ \o " " \o token])
         [] OTHER -> leave(st)

\* the value arm going back to Key after every token that did not ask to
\* keep the state, pv or not
ValueArm_back_to_key(st, token) ==
    LET m == ValueMatch(st, token)
    IN IF m.st.ret # Running THEN m.st
       ELSE IF ~m.keep_state THEN [m.st EXCEPT !.ps = "Key"]
       ELSE m.st

\* the `_` arm: the inner match, then back to Key unless pv is on or the
\* state asked to be kept
ValueArm(st, token) ==
    LET m == ValueMatch(st, token)
    IN IF m.st.ret # Running THEN m.st
       ELSE IF (~m.st.pv_on) /\ (~m.keep_state) THEN [m.st EXCEPT !.ps = "Key"]
       ELSE m.st

\* one turn of `for token in info.split(" ")`
Dispatch(st, token, allow_unknown_key) ==
    CASE st.ps = "Info" -> InfoArm(st, token)
      [] st.ps = "Key" -> KeyArm(st, token, allow_unknown_key)
      [] st.ps = "Score" -> ScoreArm(st, token)
      [] st.ps = "Unknown" -> UnknownArm(st, token)
      [] OTHER -> ValueArm(st, token)

\* the commit marking the record done as well
Commit_sets_done(st, size) ==
    Return([st EXCEPT !.ai.pv = Cell_set_trim(st.pv_buff, " ", size),
                      !.ai.done = TRUE], Ok)

\* after the loop: the pv text is committed and parse returns Ok
Commit(st, size) ==
    Return([st EXCEPT !.ai.pv = Cell_set_trim(st.pv_buff, " ", size)], Ok)

\* parse on a whole line
RECURSIVE RunTokens(_, _, _, _)
RunTokens(st, tokens, allow_unknown_key, size) ==
    IF st.ret # Running THEN st
    ELSE IF Len(tokens) = 0 THEN Commit(st, size)
    ELSE RunTokens(Dispatch(st, Head(tokens), allow_unknown_key),
                   Tail(tokens), allow_unknown_key, size)

parse(r, info, allow_unknown_key, size) ==
    RunTokens(ParseStart(r), Split(info), allow_unknown_key, size)

(***************************************************************************)
(* Inputs.                                                                 *)
(***************************************************************************)
\* the tokens the enumerated lines are made of
Vocab ==
    {"info", "quit", "zzz", "string", "lowerbound", "upperbound",
     "depth", "nodes", "score", "cp", "mate", "wdl", "currmove", "pv",
     "12", "-5", "e2e4", "e7e8qq"}

\* the lines of the documentation and the tests, and one line per key
SampleLine ==
    "info depth 3 score mate 5 nodes 3000000000 time 3000 nps 1000000 pv e2e4 e7e5 g1f3"

FullLine ==
    "info depth 1 seldepth 2 time 3 nodes 4 multipv 5 score lowerbound cp -6 wdl 7 8 9 currmove e7e8q currmovenumber 10 hashfull 11 nps 12 tbhits 13 cpuload 14 pv d2d4 d7d5 c2c4"

LongPvLine ==
    "info pv e2e4 e7e5 g1f3 b8c6 f1b5 a7a6 b5a4 g8f6 e1g1 f8e7 f1e1 b7b5"

ExampleLines ==
    {SampleLine, FullLine, LongPvLine,
     "", "quit", "info depth 3", "info zzz foo", "info zzz foo depth 7",
     "info score cp 12 upperbound", "info score mate upperbound -3",
     "info score lowerbound cp 12", "info score cp 3000000000",
     "info depth x nodes 5", "info depth 7 nodes x time 5",
     "info nodes 5 currline 1 e2e4 e7e5",
     "info refutation d1h5 g6h5", "info depth 2 string pv e2e4",
     "info wdl 300 600 100", "info wdl 300 x 100",
     "info pv e2e4", "info pv e2e4 e7e5", "info pv e2e4 depth 9"}
    \cup {"info " \o k \o " +07" : k \in Keys}
    \cup {"info " \o k \o " -1 depth 8" : k \in Keys}

\* the records parse is called on: a fresh one, or one that earlier lines
\* of the search have filled
WarmLines == {SampleLine, FullLine}

InitialRecords(size) ==
    {AnalysisInfo_new}
    \cup {parse(AnalysisInfo_new, l, FALSE, size).ai : l \in WarmLines}

(***************************************************************************)
(* The driver (src/src/uciengine.rs): the Go Job and its builder, the      *)
(* commands go renders, the filter of the reader and the decoding of the   *)
(* line go receives.                                                       *)
(***************************************************************************)
\* HashMap<String, String>: a function from its keys to their values
HashMap_new == [key \in {} |-> ""]

HashMap_insert(map, key, value) ==
    [k \in (DOMAIN map) \cup {key} |-> IF k = key THEN value ELSE map[k]]

\* the enumerations of a set of keys, each key once
Orders(keys) ==
    {order \in [1..Cardinality(keys) -> keys] :
        \A i, j \in 1..Cardinality(keys) : order[i] = order[j] => i = j}

\* what `for (key, value) in map` can yield: the pairs of the map in the
\* order of the hash table, which is arbitrary (the hasher of a std HashMap
\* is seeded at random) and unrelated to the order of the inserts
HashMap_into_iter(map) ==
    {[i \in 1..Cardinality(DOMAIN map) |-> <<order[i], map[order[i]]>>] :
        order \in Orders(DOMAIN map)}

\* Timecontrol::default(), as format!("{}", ..) prints its fields
Timecontrol_default ==
    [wtime |-> "60000", winc |-> "0", btime |-> "60000", binc |-> "0"]

GoJob_new ==
    [pos_spec |-> "No",
     pos_fen |-> None,
     pos_moves |-> None,
     uci_options |-> HashMap_new,
     go_options |-> HashMap_new]

pos_fen(self, fen) == [self EXCEPT !.pos_spec = "Fen", !.pos_fen = Some(fen)]

pos_startpos(self) == [self EXCEPT !.pos_spec = "Startpos"]

uci_opt(self, key, value) ==
    [self EXCEPT !.uci_options = HashMap_insert(@, key, value)]

go_opt(self, key, value) ==
    [self EXCEPT !.go_options = HashMap_insert(@, key, value)]

tc(self, timecontrol) ==
    [self EXCEPT !.go_options =
        HashMap_insert(
            HashMap_insert(
                HashMap_insert(
                    HashMap_insert(@, "wtime", timecontrol.wtime),
                    "winc", timecontrol.winc),
                "btime", timecontrol.btime),
            "binc", timecontrol.binc)]

setoption_command(key, value) ==
    "setoption name " \o key \o " value " \o value

pos_command_moves(go_job) ==
    IF go_job.pos_moves.some THEN " moves " \o go_job.pos_moves.value ELSE ""

pos_command(go_job) ==
    CASE go_job.pos_spec = "Startpos" ->
            Some("position startpos" \o pos_command_moves(go_job))
      [] go_job.pos_spec = "Fen" ->
            Some("position fen " \o go_job.pos_fen.value \o pos_command_moves(go_job))
      [] OTHER -> None

\* the go command: "go", then " key value" for each pair the iteration yields
RECURSIVE go_command(_)
go_command(pairs) ==
    IF Len(pairs) = 0 THEN "go"
    ELSE LET most == go_command(SubSeq(pairs, 1, Len(pairs) - 1))
             pair == pairs[Len(pairs)]
         IN most \o " " \o pair[1] \o " " \o pair[2]

\* a test of the length alone
Forwarded_long_enough(text) == Len(text) >= 8

\* the test of read_stdout: at least 8 bytes, the first 8 being "bestmove"
Forwarded(text) ==
    IF Len(text) >= 8 THEN Prefix(text, 8) = "bestmove" ELSE FALSE

\* Receiver::recv: Ok(line), or Err when the channel is disconnected
RecvOk(text) == [ok |-> TRUE, line |-> text]
RecvErr == [ok |-> FALSE]

\* a decoding that takes the ponder from the token after the best move
GoResult_ponder_next(recv) ==
    IF recv.ok
    THEN LET parts == Split(recv.line)
         IN [bestmove |-> IF Len(parts) > 1 THEN Some(parts[2]) ELSE None,
             ponder |-> IF Len(parts) > 2 THEN Some(parts[3]) ELSE None]
    ELSE [bestmove |-> None, ponder |-> None]

\* the GoResult go builds from what recv returned
GoResult(recv) ==
    IF recv.ok
    THEN LET parts == Split(recv.line)
         IN [bestmove |-> IF Len(parts) > 1 THEN Some(parts[2]) ELSE None,
             ponder |-> IF Len(parts) > 3 THEN Some(parts[4]) ELSE None]
    ELSE [bestmove |-> None, ponder |-> None]

(***************************************************************************)
(* State.                                                                  *)
(*   ai                 the AnalysisInfo of the application                *)
(*   pc                 "idle", "parsing" (inside parse), "returned",      *)
(*                      "encoded" (after to_serde), "decoded" (after       *)
(*                      from_serde)                                        *)
(*   ps, pv_buff, pv_on the locals of parse                                *)
(*   allow_unknown_key  env_true("ALLOW_UNKNOWN_INFO_KEY") as parse read it*)
(*   ret                what parse returned                                *)
(*   max_pv_moves       MAX_PV_MOVES of the build                          *)
(*   line, rest         the tokens of info.split(" ") taken so far and,    *)
(*                      for an example line, those still to come           *)
(*   at                 at[i] is the parser state line[i] was handled in   *)
(*   example            whether the line is one of ExampleLines            *)
(*   pre                the record as it was when parse was called         *)
(*   ais                the AnalysisInfoSerde that to_serde returned       *)
(*   decoded            the AnalysisInfo that from_serde returned          *)
(*   job                the GoJob the caller is building or has handed to  *)
(*                      go                                                 *)
(*   uci_added, go_added  the keys of uci_options and of go_options in the *)
(*                      order the builder calls added them                 *)
(*   builds             the builder calls made on job                      *)
(*   pc_go              where the caller is: "build" (outside go),         *)
(*                      "options", "go", "recv" (inside go), "returned"    *)
(*   uci_iter           the pairs the loop over uci_options has yet to     *)
(*                      yield                                              *)
(*   issued             the commands this go call handed to issue_command, *)
(*                      each with whether the write succeeded              *)
(*   go_received        the go commands the subprocess has received        *)
(*   alive              the subprocess runs (its pipes are open)           *)
(*   pipe               the lines the subprocess has written and the       *)
(*                      reader has not read, each with the number of go    *)
(*                      commands received when it was written              *)
(*   emitted            the number of lines the subprocess has written     *)
(*   reader             "running", or how read_stdout ended: "eof",        *)
(*                      "failed" (tx is dropped when it ends)              *)
(*   chan               the lines in the channel, oldest first             *)
(*   chan_at_call       the channel as it was when go was called           *)
(*   received           what rx.recv() returned to this go call            *)
(*   received_after     the go commands the subprocess had received when   *)
(*                      it wrote that line                                 *)
(*   go_result          the GoResult go returned                           *)
(*   calls              the go calls made                                  *)
(*   shared_worker      the caller's task and the reader task run on one   *)
(*                      executor worker                                    *)
(*   cell, cap          a text cell and its capacity                       *)
(*   op, arg, sep       the last cell operation and its arguments          *)
(***************************************************************************)
VARIABLES ai, pc, ps, pv_buff, pv_on, allow_unknown_key, ret, max_pv_moves,
          line, rest, at, example, pre, cell, cap, op, arg, sep,
          ais, decoded,
          job, uci_added, go_added, builds, pc_go, uci_iter, issued,
          go_received, alive, pipe, emitted, reader, chan, chan_at_call,
          received, received_after, go_result, calls, shared_worker

parserVars == <<ai, pc, ps, pv_buff, pv_on, allow_unknown_key, ret,
                max_pv_moves, line, rest, at, example, pre>>
cellVars == <<cell, cap, op, arg, sep>>
serdeVars == <<ais, decoded>>
jobVars == <<job, uci_added, go_added, builds>>
callVars == <<pc_go, uci_iter, issued, chan_at_call, received, received_after,
              go_result, calls>>
engineVars == <<go_received, alive, pipe, emitted>>
readerVars == <<reader, chan>>
driverVars == <<jobVars, callVars, engineVars, readerVars, shared_worker>>
vars == <<parserVars, cellVars, serdeVars, driverVars>>

Builds == {MAX_PV_MOVES_BUILD, MAX_PV_MOVES_TEST}

PvSize == PV_BUFF_SIZE(max_pv_moves)

\* the engine after UciEngine::new, the caller with a GoJob::new()
DriverNew ==
    /\ job = GoJob_new
    /\ uci_added = <<>>
    /\ go_added = <<>>
    /\ builds = 0
    /\ pc_go = "build"
    /\ uci_iter = <<>>
    /\ issued = <<>>
    /\ go_received = 0
    /\ alive = TRUE
    /\ pipe = <<>>
    /\ emitted = 0
    /\ reader = "running"
    /\ chan = <<>>
    /\ chan_at_call = <<>>
    /\ received = RecvErr
    /\ received_after = 0
    /\ go_result = GoResult(RecvErr)
    /\ calls = 0

DriverIdle ==
    /\ DriverNew
    /\ shared_worker = FALSE

SerdeIdle ==
    /\ ais = to_serde(AnalysisInfo_new)
    /\ decoded = AnalysisInfo_new

CellIdle ==
    /\ cell = Cell_new
    /\ cap = UCI_MAX_LENGTH
    /\ op = "new"
    /\ arg = ""
    /\ sep = " "

Init ==
    /\ max_pv_moves \in Builds
    /\ ai \in InitialRecords(PvSize)
    /\ pc = "idle"
    /\ ps = "Info"
    /\ pv_buff = ""
    /\ pv_on = FALSE
    /\ allow_unknown_key = FALSE
    /\ ret = Running
    /\ line = <<>>
    /\ rest = <<>>
    /\ at = <<>>
    /\ example = FALSE
    /\ pre = ai
    /\ CellIdle
    /\ SerdeIdle
    /\ DriverIdle

\* the application sets the public field done before it hands the record
\* to parse
SetDone(b) ==
    /\ pc = "idle"
    /\ ai.done # b
    /\ ai' = [ai EXCEPT !.done = b]
    /\ UNCHANGED <<pc, ps, pv_buff, pv_on, allow_unknown_key, ret,
                   max_pv_moves, line, rest, at, example, pre>>
    /\ UNCHANGED <<cellVars, serdeVars, driverVars>>

\* parse is entered: the locals are initialised and the toggle is read
Enter(tokens, isExample, allow) ==
    /\ pc = "idle"
    /\ pc' = "parsing"
    /\ ps' = "Info"
    /\ pv_buff' = ""
    /\ pv_on' = FALSE
    /\ allow_unknown_key' = allow
    /\ ret' = Running
    /\ line' = <<>>
    /\ rest' = tokens
    /\ at' = <<>>
    /\ example' = isExample
    /\ pre' = ai
    /\ UNCHANGED <<ai, max_pv_moves>>
    /\ UNCHANGED <<cellVars, serdeVars, driverVars>>

\* parse of a line made of at most MaxTokens tokens of Vocab
ParseLine == \E allow \in BOOLEAN : Enter(<<>>, FALSE, allow)

\* parse of one of the example lines
ParseExample ==
    \E info \in ExampleLines, allow \in BOOLEAN : Enter(Split(info), TRUE, allow)

\* the tokens the iterator can yield next
NextTokens ==
    IF example THEN (IF Len(rest) > 0 THEN {Head(rest)} ELSE {})
    ELSE (IF Len(line) < MaxTokens THEN Vocab ELSE {})

\* the iterator is exhausted (split yields at least one token)
LineEnds ==
    IF example THEN Len(rest) = 0 ELSE Len(line) >= 1

Locals == [ai |-> ai, ps |-> ps, pv_buff |-> pv_buff, pv_on |-> pv_on, ret |-> ret]

\* the state after one arm or after the commit
Becomes(st) ==
    /\ ai' = st.ai
    /\ ps' = st.ps
    /\ pv_buff' = st.pv_buff
    /\ pv_on' = st.pv_on
    /\ ret' = st.ret
    /\ pc' = IF st.ret = Running THEN "parsing" ELSE "returned"
    /\ UNCHANGED <<allow_unknown_key, max_pv_moves, example, pre>>
    /\ UNCHANGED <<cellVars, serdeVars, driverVars>>

Take(token) ==
    /\ line' = Append(line, token)
    /\ rest' = IF example THEN Tail(rest) ELSE rest
    /\ at' = Append(at, ps)

StepInfo ==
    /\ pc = "parsing" /\ ps = "Info"
    /\ \E token \in NextTokens :
         Take(token) /\ Becomes(InfoArm(Locals, token))

StepKey ==
    /\ pc = "parsing" /\ ps = "Key"
    /\ \E token \in NextTokens :
         Take(token) /\ Becomes(KeyArm(Locals, token, allow_unknown_key))

StepScore ==
    /\ pc = "parsing" /\ ps = "Score"
    /\ \E token \in NextTokens :
         Take(token) /\ Becomes(ScoreArm(Locals, token))

StepUnknown ==
    /\ pc = "parsing" /\ ps = "Unknown"
    /\ \E token \in NextTokens :
         Take(token) /\ Becomes(UnknownArm(Locals, token))

StepValue ==
    /\ pc = "parsing" /\ ps \notin {"Info", "Key", "Score", "Unknown"}
    /\ \E token \in NextTokens :
         Take(token) /\ Becomes(ValueArm(Locals, token))

\* the loop is over
ParseEnd ==
    /\ pc = "parsing"
    /\ LineEnds
    /\ Becomes(Commit(Locals, PvSize))
    /\ UNCHANGED <<line, rest, at>>

\* to_serde of the record a parse has returned (a parse of the empty line
\* returns the record as it was)
ToSerde ==
    /\ pc = "returned"
    /\ pc' = "encoded"
    /\ ais' = to_serde(ai)
    /\ UNCHANGED <<ai, ps, pv_buff, pv_on, allow_unknown_key, ret,
                   max_pv_moves, line, rest, at, example, pre, decoded>>
    /\ UNCHANGED <<cellVars, driverVars>>

\* from_serde of what to_serde returned
FromSerde ==
    /\ pc = "encoded"
    /\ pc' = "decoded"
    /\ decoded' = from_serde(ais, PvSize)
    /\ UNCHANGED <<ai, ps, pv_buff, pv_on, allow_unknown_key, ret,
                   max_pv_moves, line, rest, at, example, pre, ais>>
    /\ UNCHANGED <<cellVars, driverVars>>

ParserNext ==
    \/ \E b \in BOOLEAN : SetDone(b)
    \/ ParseLine
    \/ ParseExample
    \/ StepInfo
    \/ StepKey
    \/ StepScore
    \/ StepUnknown
    \/ StepValue
    \/ ParseEnd
    \/ ToSerde
    \/ FromSerde

Next == ParserNext

Spec == Init /\ [][Next]_vars

(***************************************************************************)
(* The text cells on their own: a cell of some capacity and the            *)
(* operations gen_str_buff! gives it, on enumerated texts.                 *)
(***************************************************************************)
Alphabet == {"e", " "}

RECURSIVE TextsUpTo(_)
TextsUpTo(n) ==
    IF n = 0 THEN {""}
    ELSE LET shorter == TextsUpTo(n - 1)
         IN shorter \cup {t \o c : t \in shorter, c \in Alphabet}

ExampleTexts ==
    {"e2e4", "e2e4 e7e5", "e2e4 e7e5 g1f3", "e2e4 e7e5 g1f3 b8c6"}

Texts == TextsUpTo(MaxLen) \cup ExampleTexts

Separators == Alphabet

Capacities ==
    (1..MaxCap) \cup {UCI_MAX_LENGTH, PV_BUFF_SIZE(MAX_PV_MOVES_TEST),
                      PV_BUFF_SIZE(MAX_PV_MOVES_BUILD)}

ParserIdle ==
    /\ max_pv_moves = MAX_PV_MOVES_BUILD
    /\ ai = AnalysisInfo_new
    /\ pc = "idle"
    /\ ps = "Info"
    /\ pv_buff = ""
    /\ pv_on = FALSE
    /\ allow_unknown_key = FALSE
    /\ ret = Running
    /\ line = <<>>
    /\ rest = <<>>
    /\ at = <<>>
    /\ example = FALSE
    /\ pre = ai

InitCell ==
    /\ ParserIdle
    /\ SerdeIdle
    /\ DriverIdle
    /\ cap \in Capacities
    /\ cell = Cell_new
    /\ op = "new"
    /\ arg = ""
    /\ sep = " "

CellOp(name, value, trim, result) ==
    /\ cell' = result
    /\ op' = name
    /\ arg' = value
    /\ sep' = trim
    /\ UNCHANGED cap
    /\ UNCHANGED <<parserVars, serdeVars, driverVars>>

Set == \E value \in Texts : CellOp("set", value, sep, Cell_set(value, cap))

From == \E value \in Texts : CellOp("from", value, sep, Cell_from(value, cap))

Reset == CellOp("reset", "", sep, Cell_reset)

SetTrim ==
    \E value \in Texts, trim \in Separators :
        CellOp("set_trim", value, trim, Cell_set_trim(value, trim, cap))

CellNext == Set \/ From \/ Reset \/ SetTrim

SpecCell == InitCell /\ [][CellNext]_vars

(***************************************************************************)
(* The driver: a caller that builds Go Jobs and calls go, the subprocess,  *)
(* and the reader task. go is one step per command it issues (each         *)
(* issue_command is awaited) and one step for the receive and the decoding *)
(* that follows it, which has no await.                                    *)
(***************************************************************************)
UciPairs == {<<"Hash", "1">>, <<"Threads", "2">>}

GoPairs == {<<"depth", "5">>}

Fens == {"8/8 w"}

\* what the subprocess may write: the answer with and without ponder, the
\* keyword alone and with two tokens after it, an info line and a line that
\* is too short
OutLines ==
    {"bestmove e2e4 ponder e7e5", "bestmove d2d4", "bestmove",
     "bestmove g1f3 ponder", "info depth 1", "bestmov"}

\* the jobs one more builder call makes of a job: the public methods of
\* GoJob that take and return a job
BuilderCalls(self) ==
    {pos_startpos(self)}
    \cup {pos_fen(self, fen) : fen \in Fens}
    \cup {uci_opt(self, pair[1], pair[2]) : pair \in UciPairs}
    \cup {go_opt(self, pair[1], pair[2]) : pair \in GoPairs}
    \cup {tc(self, Timecontrol_default)}

\* the jobs that at most n builder calls make of GoJob::new()
RECURSIVE BuiltJobs(_)
BuiltJobs(n) ==
    IF n = 0 THEN {GoJob_new}
    ELSE LET fewer == BuiltJobs(n - 1)
         IN fewer \cup UNION {BuilderCalls(self) : self \in fewer}

InitDriver ==
    /\ ParserIdle
    /\ CellIdle
    /\ SerdeIdle
    /\ DriverNew
    /\ shared_worker \in BOOLEAN

OutsideDriver == <<parserVars, cellVars, serdeVars>>

\* a builder call on the job
Build(next_job, uci_keys, go_keys) ==
    /\ pc_go = "build"
    /\ builds < MaxBuild
    /\ Cardinality(DOMAIN next_job.go_options) <= MaxGoKeys
    /\ job' = next_job
    /\ uci_added' = uci_added \o uci_keys
    /\ go_added' = go_added \o go_keys
    /\ builds' = builds + 1
    /\ UNCHANGED <<callVars, engineVars, readerVars, shared_worker>>
    /\ UNCHANGED OutsideDriver

PosFen == \E fen \in Fens : Build(pos_fen(job, fen), <<>>, <<>>)

PosStartpos == Build(pos_startpos(job), <<>>, <<>>)

UciOpt == \E pair \in UciPairs : Build(uci_opt(job, pair[1], pair[2]), <<pair[1]>>, <<>>)

GoOpt == \E pair \in GoPairs : Build(go_opt(job, pair[1], pair[2]), <<>>, <<pair[1]>>)

Tc == Build(tc(job, Timecontrol_default), <<>>, <<"wtime", "winc", "btime", "binc">>)

\* issue_command: write_all succeeds while the subprocess holds the other
\* end of the pipe and fails once it is gone; go drops the Result
IssueCommand(command, is_go) ==
    /\ issued' = Append(issued, [command |-> command, written |-> alive])
    /\ go_received' = IF alive /\ is_go THEN go_received + 1 ELSE go_received
    /\ UNCHANGED <<alive, pipe, emitted>>

\* go is called with the job: the loop over uci_options starts
GoEnter ==
    /\ pc_go = "build"
    /\ calls < MaxCalls
    /\ pc_go' = "options"
    /\ calls' = calls + 1
    /\ uci_iter' \in HashMap_into_iter(job.uci_options)
    /\ issued' = <<>>
    /\ chan_at_call' = chan
    /\ UNCHANGED <<received, received_after, go_result>>
    /\ UNCHANGED <<jobVars, engineVars, readerVars, shared_worker>>
    /\ UNCHANGED OutsideDriver

\* a loop over uci_options that takes a pair without issuing its command
IssueOption_dropped ==
    /\ pc_go = "options"
    /\ Len(uci_iter) > 0
    /\ uci_iter' = Tail(uci_iter)
    /\ UNCHANGED <<pc_go, issued, chan_at_call, received, received_after,
                   go_result, calls>>
    /\ UNCHANGED <<jobVars, engineVars, readerVars, shared_worker>>
    /\ UNCHANGED OutsideDriver

IssueOption ==
    /\ pc_go = "options"
    /\ Len(uci_iter) > 0
    /\ IssueCommand(setoption_command(Head(uci_iter)[1], Head(uci_iter)[2]), FALSE)
    /\ uci_iter' = Tail(uci_iter)
    /\ UNCHANGED <<pc_go, chan_at_call, received, received_after,
                   go_result, calls>>
    /\ UNCHANGED <<jobVars, readerVars, shared_worker>>
    /\ UNCHANGED OutsideDriver

\* after the loop: the position command, if the job has a position
IssuePosition ==
    /\ pc_go = "options"
    /\ Len(uci_iter) = 0
    /\ pc_go' = "go"
    /\ IF pos_command(job).some
       THEN IssueCommand(pos_command(job).value, FALSE)
       ELSE UNCHANGED <<issued, engineVars>>
    /\ UNCHANGED <<uci_iter, chan_at_call, received, received_after,
                   go_result, calls>>
    /\ UNCHANGED <<jobVars, readerVars, shared_worker>>
    /\ UNCHANGED OutsideDriver

\* the go command, built by the loop over go_options
IssueGo ==
    /\ pc_go = "go"
    /\ pc_go' = "recv"
    /\ \E pairs \in HashMap_into_iter(job.go_options) :
          IssueCommand(go_command(pairs), TRUE)
    /\ UNCHANGED <<uci_iter, chan_at_call, received, received_after,
                   go_result, calls>>
    /\ UNCHANGED <<jobVars, readerVars, shared_worker>>
    /\ UNCHANGED OutsideDriver

\* a receive that gives up on an empty channel the reader still feeds
Recv_times_out ==
    /\ pc_go = "recv"
    /\ \/ /\ Len(chan) > 0
          /\ received' = RecvOk(Head(chan).text)
          /\ received_after' = Head(chan).after
          /\ chan' = Tail(chan)
       \/ /\ Len(chan) = 0
          /\ received' = RecvErr
          /\ received_after' = 0
          /\ chan' = chan
    /\ go_result' = GoResult(received')
    /\ pc_go' = "returned"
    /\ UNCHANGED <<uci_iter, issued, chan_at_call, calls, reader>>
    /\ UNCHANGED <<jobVars, engineVars, shared_worker>>
    /\ UNCHANGED OutsideDriver

\* a receive that waits for a line whether or not a sender is left
Recv_waits_for_line ==
    /\ pc_go = "recv"
    /\ Len(chan) > 0
    /\ received' = RecvOk(Head(chan).text)
    /\ received_after' = Head(chan).after
    /\ chan' = Tail(chan)
    /\ go_result' = GoResult(received')
    /\ pc_go' = "returned"
    /\ UNCHANGED <<uci_iter, issued, chan_at_call, calls, reader>>
    /\ UNCHANGED <<jobVars, engineVars, shared_worker>>
    /\ UNCHANGED OutsideDriver

\* a receive that answers a disconnected channel with the null move
Recv_null_move ==
    /\ pc_go = "recv"
    /\ \/ /\ Len(chan) > 0
          /\ received' = RecvOk(Head(chan).text)
          /\ received_after' = Head(chan).after
          /\ chan' = Tail(chan)
          /\ go_result' = GoResult(received')
       \/ /\ Len(chan) = 0
          /\ reader # "running"
          /\ received' = RecvErr
          /\ received_after' = 0
          /\ chan' = chan
          /\ go_result' = [bestmove |-> Some("0000"), ponder |-> None]
    /\ pc_go' = "returned"
    /\ UNCHANGED <<uci_iter, issued, chan_at_call, calls, reader>>
    /\ UNCHANGED <<jobVars, engineVars, shared_worker>>
    /\ UNCHANGED OutsideDriver

\* self.rx.recv(), which blocks the thread until the channel holds a line
\* or is disconnected and empty; then the GoResult is built and returned
Recv ==
    /\ pc_go = "recv"
    /\ \/ /\ Len(chan) > 0
          /\ received' = RecvOk(Head(chan).text)
          /\ received_after' = Head(chan).after
          /\ chan' = Tail(chan)
       \/ /\ Len(chan) = 0
          /\ reader # "running"
          /\ received' = RecvErr
          /\ received_after' = 0
          /\ chan' = chan
    /\ go_result' = GoResult(received')
    /\ pc_go' = "returned"
    /\ UNCHANGED <<uci_iter, issued, chan_at_call, calls, reader>>
    /\ UNCHANGED <<jobVars, engineVars, shared_worker>>
    /\ UNCHANGED OutsideDriver

\* the caller starts the next job
NextJob ==
    /\ pc_go = "returned"
    /\ calls < MaxCalls
    /\ pc_go' = "build"
    /\ job' = GoJob_new
    /\ uci_added' = <<>>
    /\ go_added' = <<>>
    /\ builds' = 0
    /\ issued' = <<>>
    /\ chan_at_call' = <<>>
    /\ received' = RecvErr
    /\ received_after' = 0
    /\ go_result' = GoResult(RecvErr)
    /\ UNCHANGED <<uci_iter, calls>>
    /\ UNCHANGED <<engineVars, readerVars, shared_worker>>
    /\ UNCHANGED OutsideDriver

\* the subprocess writes a line to its output
Emit ==
    /\ alive
    /\ emitted < MaxOut
    /\ \E text \in OutLines :
          pipe' = Append(pipe, [text |-> text, after |-> go_received])
    /\ emitted' = emitted + 1
    /\ UNCHANGED <<go_received, alive>>
    /\ UNCHANGED <<jobVars, callVars, readerVars, shared_worker>>
    /\ UNCHANGED OutsideDriver

\* the subprocess exits: its ends of the pipes are closed
Exit ==
    /\ alive
    /\ alive' = FALSE
    /\ UNCHANGED <<go_received, pipe, emitted>>
    /\ UNCHANGED <<jobVars, callVars, readerVars, shared_worker>>
    /\ UNCHANGED OutsideDriver

\* the reader task is polled only when its worker is free: recv in go is a
\* blocking call, not an await, and holds the worker it runs on
ReaderRuns ==
    /\ reader = "running"
    /\ ~(shared_worker /\ pc_go = "recv")

\* a reader that sends a line that passes the test twice
ReadLine_sends_twice ==
    /\ ReaderRuns
    /\ Len(pipe) > 0
    /\ pipe' = Tail(pipe)
    /\ chan' = IF Forwarded(Head(pipe).text)
               THEN Append(Append(chan, Head(pipe)), Head(pipe))
               ELSE chan
    /\ UNCHANGED <<reader, go_received, alive, emitted>>
    /\ UNCHANGED <<jobVars, callVars, shared_worker>>
    /\ UNCHANGED OutsideDriver

\* read_stdout reads a line and forwards it if it passes the test
ReadLine ==
    /\ ReaderRuns
    /\ Len(pipe) > 0
    /\ pipe' = Tail(pipe)
    /\ chan' = IF Forwarded(Head(pipe).text) THEN Append(chan, Head(pipe)) ELSE chan
    /\ UNCHANGED <<reader, go_received, alive, emitted>>
    /\ UNCHANGED <<jobVars, callVars, shared_worker>>
    /\ UNCHANGED OutsideDriver

\* next_line returns None at the end of the output: read_stdout returns
\* and tx is dropped
ReadEof ==
    /\ ReaderRuns
    /\ Len(pipe) = 0
    /\ ~alive
    /\ reader' = "eof"
    /\ UNCHANGED <<chan, engineVars>>
    /\ UNCHANGED <<jobVars, callVars, shared_worker>>
    /\ UNCHANGED OutsideDriver

\* next_line returns an error: read_stdout returns it and tx is dropped
ReadError ==
    /\ ReaderRuns
    /\ reader' = "failed"
    /\ UNCHANGED <<chan, engineVars>>
    /\ UNCHANGED <<jobVars, callVars, shared_worker>>
    /\ UNCHANGED OutsideDriver

DriverNext ==
    \/ PosFen
    \/ PosStartpos
    \/ UciOpt
    \/ GoOpt
    \/ Tc
    \/ GoEnter
    \/ IssueOption
    \/ IssuePosition
    \/ IssueGo
    \/ Recv
    \/ NextJob
    \/ Emit
    \/ Exit
    \/ ReadLine
    \/ ReadEof
    \/ ReadError

SpecDriver == InitDriver /\ [][DriverNext]_vars

\* The go calls alone: the first job is already built (no job, or an option
\* and the start position), the later ones are GoJob::new().
InitGo ==
    /\ ParserIdle
    /\ CellIdle
    /\ SerdeIdle
    /\ \/ /\ job = GoJob_new
          /\ uci_added = <<>>
          /\ builds = 0
       \/ /\ job = pos_startpos(uci_opt(GoJob_new, "Hash", "1"))
          /\ uci_added = <<"Hash">>
          /\ builds = 2
    /\ go_added = <<>>
    /\ pc_go = "build"
    /\ uci_iter = <<>>
    /\ issued = <<>>
    /\ go_received = 0
    /\ alive = TRUE
    /\ pipe = <<>>
    /\ emitted = 0
    /\ reader = "running"
    /\ chan = <<>>
    /\ chan_at_call = <<>>
    /\ received = RecvErr
    /\ received_after = 0
    /\ go_result = GoResult(RecvErr)
    /\ calls = 0
    /\ shared_worker \in BOOLEAN

GoNext ==
    \/ GoEnter
    \/ IssueOption
    \/ IssuePosition
    \/ IssueGo
    \/ Recv
    \/ NextJob
    \/ Emit
    \/ Exit
    \/ ReadLine
    \/ ReadEof
    \/ ReadError

\* the caller's task and the reader task are each polled again and again
\* while they can make a step; the subprocess owes nothing
SpecGoFair ==
    /\ InitGo
    /\ [][GoNext]_vars
    /\ WF_vars(IssueOption) /\ WF_vars(IssuePosition) /\ WF_vars(IssueGo)
    /\ WF_vars(Recv)
    /\ WF_vars(ReadLine) /\ WF_vars(ReadEof)

\* A subprocess that keeps the protocol's discipline: it writes a bestmove
\* line only in answer to a go command it has received, and one per go
\* command; the caller's go calls follow one another (go takes &mut self).
EmitOnePerGo ==
    /\ Emit
    /\ Forwarded(pipe'[Len(pipe')].text) =>
          /\ pc_go = "recv"
          /\ go_received = calls
          /\ \A i \in 1..Len(pipe) : ~Forwarded(pipe[i].text)
          /\ Len(chan) = 0

OneInFlightNext ==
    \/ GoEnter
    \/ IssueOption
    \/ IssuePosition
    \/ IssueGo
    \/ Recv
    \/ NextJob
    \/ EmitOnePerGo
    \/ Exit
    \/ ReadLine
    \/ ReadEof
    \/ ReadError

SpecOneInFlight == InitGo /\ [][OneInFlightNext]_vars

(***************************************************************************)
(* Vocabulary of the properties.                                           *)
(***************************************************************************)
Last(seq) == seq[Len(seq)]

IsPrefix(p, s) == Len(p) <= Len(s) /\ Prefix(s, Len(p)) = p

\* the tokens of a line put together again
RECURSIVE Join(_)
Join(toks) ==
    IF Len(toks) = 0 THEN ""
    ELSE IF Len(toks) = 1 THEN toks[1]
    ELSE toks[1] \o " " \o Join(Tail(toks))

\* a token has just been taken from the line
Took == Len(line') = Len(line) + 1

\* the keywords of the info grammar, the bound words and the unsupported
\* extensions
InfoKeywords ==
    {"depth", "seldepth", "time", "nodes", "multipv", "score", "wdl",
     "currmove", "currmovenumber", "hashfull", "nps", "tbhits", "cpuload",
     "pv"}

BoundKeywords == {"lowerbound", "upperbound"}

ExtensionKeywords == {"string", "refutation", "currline"}

\* the keywords that name each field of the record
FieldKeywords ==
    [bestmove |-> {"pv"}, ponder |-> {"pv"}, pv |-> {"pv"},
     depth |-> {"depth"}, seldepth |-> {"seldepth"}, time |-> {"time"},
     nodes |-> {"nodes"}, multipv |-> {"multipv"}, score |-> {"score"},
     scoretype |-> {"score", "lowerbound", "upperbound"},
     wdl |-> {"wdl"}, currmove |-> {"currmove"},
     currmovenumber |-> {"currmovenumber"}, hashfull |-> {"hashfull"},
     nps |-> {"nps"}, tbhits |-> {"tbhits"}, cpuload |-> {"cpuload"},
     done |-> {}]

Named(f) == \E i \in 1..Len(line) : line[i] \in FieldKeywords[f]

\* a prefix of n bytes of the text ends where a token ends
AtBoundary(text, n, trim) ==
    n = 0 \/ n = Len(text) \/ Char(text, n + 1) = trim

\* what a move-sized cell holds of a token
Stored(token) ==
    IF Len(token) <= UCI_MAX_LENGTH THEN token
    ELSE Prefix(token, UCI_MAX_LENGTH)

\* a decimal numeral of an i32 in canonical form, at most nine digits long
Numeral(token) ==
    LET digits == IF Len(token) > 0 /\ Char(token, 1) = "-"
                  THEN SubSeq(token, 2, Len(token)) ELSE token
    IN /\ Len(digits) \in 1..9
       /\ \A i \in 1..Len(digits) :
              Char(digits, i) \in {"0", "1", "2", "3", "4", "5", "6", "7", "8", "9"}
       /\ Char(digits, 1) # "0"

(***************************************************************************)
(* C1. Partial update: after a successful parse every field whose keyword  *)
(* does not occur in the line has the value it had before the call; in     *)
(* particular the pv text is unchanged by a line without the pv key.       *)
(***************************************************************************)
C1_PartialUpdate ==
    (pc = "returned" /\ ret = Ok) =>
        \A f \in DOMAIN FieldKeywords : (~Named(f)) => ai[f] = pre[f]

\* C1 holds of every field but pv
C1_PartialUpdate_but_pv ==
    (pc = "returned" /\ ret = Ok) =>
        \A f \in DOMAIN FieldKeywords \ {"pv"} : (~Named(f)) => ai[f] = pre[f]

\* the pv text of a record is lost to a line that names no pv
C1_PvLost ==
    /\ pc = "returned" /\ ret = Ok
    /\ line = <<"info", "depth", "3">>
    /\ pre.pv # "" /\ ai.pv = ""

(***************************************************************************)
(* C2. Principal variation: once pv is read as a key, the next token is    *)
(* stored as best move and the ponder move is reset to absent, the token   *)
(* after it is stored as ponder move, no later token of the line is read   *)
(* as a key, and when parse returns the pv cell holds the tokens after pv, *)
(* joined by spaces and cut at the end of a token within the capacity of   *)
(* the cell.  The line of the test gives depth 3, score Mate(5), best move *)
(* e2e4 and ponder e7e5.                                                   *)
(***************************************************************************)
PvStates == {"PvBestmove", "PvPonder", "PvRest"}

NumberStates ==
    {"Depth", "Seldepth", "Time", "Nodes", "Multipv", "WdlW", "WdlD", "WdlL",
     "ScoreCp", "ScoreMate", "Currmovenumber", "Hashfull", "Nps", "Tbhits",
     "Cpuload"}

C3_ErrorPolicy ==
    [][ /\ (pc' = "returned" /\ IsErr(ret')) =>
             /\ pc = "parsing"
             /\ Took
             /\ ai' = ai
             /\ ret'.value = Last(line')
             /\ ret'.kind = "ParseNumberError" =>
                    /\ ret'.state = ps
                    /\ ps \in NumberStates
                    /\ ~(Numeral(Last(line')) /\ Char(Last(line'), 1) # "-")
             /\ ret'.kind = "InvalidKeyError" => ps = "Key"
             /\ ret'.kind = "InvalidScoreSpecifier" => ps = "Score"
        /\ pc = "returned" => UNCHANGED <<ai, line, rest, ret>>
      ]_vars

\* a number error after a field was assigned, with tokens left on the line
C3_Witness ==
    /\ pc = "returned"
    /\ ret = ParseNumberError("Nodes", "x")
    /\ line = <<"info", "depth", "7", "nodes", "x">>
    /\ rest = <<"time", "5">>
    /\ ai.depth = "7" /\ pre.depth # "7"
    /\ ai.time = pre.time

(***************************************************************************)
(* C4. Ignored input: a line whose first token is not info returns Ok and  *)
(* changes no field; string, refutation or currline read as a key returns  *)
(* Ok and changes no field, so that what the earlier keys of the line      *)
(* assigned stays and nothing else differs from before the call.           *)
(***************************************************************************)
C4_IgnoredInput ==
    [][ /\ (pc = "parsing" /\ ps = "Info" /\ Took /\ Last(line') # "info") =>
             (pc' = "returned" /\ ret' = Ok /\ ai' = ai /\ ai' = pre)
        /\ (pc = "parsing" /\ ps = "Key" /\ Took
                /\ Last(line') \in ExtensionKeywords) =>
             (pc' = "returned" /\ ret' = Ok /\ ai' = ai)
      ]_vars

\* an unsupported key after a key that was applied, on a record holding a pv
C4_Witness ==
    /\ pc = "returned" /\ ret = Ok
    /\ line = <<"info", "depth", "2", "string">>
    /\ at[4] = "Key"
    /\ pre.pv # "" /\ ai.pv = pre.pv
    /\ ai.depth = "2" /\ pre.depth # "2"

(***************************************************************************)
(* C5. Strict mode: with the toggle off, a token read as a key that is no  *)
(* keyword, bound word or unsupported extension makes parse return the     *)
(* invalid-key error carrying that token; "info zzz foo" fails on zzz.     *)
(***************************************************************************)
C5_StrictMode ==
    [][ (pc = "parsing" /\ ps = "Key" /\ ~allow_unknown_key /\ Took
            /\ Last(line') \notin
                   (InfoKeywords \cup BoundKeywords \cup ExtensionKeywords)) =>
          (pc' = "returned" /\ ret' = InvalidKeyError(Last(line')) /\ ai' = ai)
      ]_vars

C5_Witness ==
    /\ pc = "returned"
    /\ ~allow_unknown_key
    /\ line = <<"info", "zzz">>
    /\ rest = <<"foo">>
    /\ ret = InvalidKeyError("zzz")

(***************************************************************************)
(* C6. Tolerant mode: with the toggle on, a token read as a key that is    *)
(* not recognised makes the parser skip exactly the next token and read    *)
(* the one after it as a key again; "info zzz foo" then returns Ok with no *)
(* field of the record changed, whatever the record held.                  *)
(***************************************************************************)
\* the first half of C6: the token after an unknown key is skipped and the
\* one after it is read as a key
C6_SkipsOneToken ==
    \A i \in 1..Len(line) :
        (allow_unknown_key /\ at[i] = "Key"
            /\ line[i] \notin
                   (InfoKeywords \cup BoundKeywords \cup ExtensionKeywords)) =>
          /\ ~IsErr(ret)
          /\ (i + 1 <= Len(line)) => at[i + 1] = "Unknown"
          /\ (i + 2 <= Len(line)) => at[i + 2] = "Key"
          /\ (i = Len(line) /\ pc = "parsing") => ps = "Unknown"
          /\ (i + 1 = Len(line) /\ pc = "parsing") => ps = "Key"

\* C6, both halves: the skip, and "info zzz foo" returning Ok with the
\* record as it was before the call
C6_TolerantMode ==
    /\ C6_SkipsOneToken
    /\ (pc = "returned" /\ allow_unknown_key
            /\ line = <<"info", "zzz", "foo">> /\ Len(rest) = 0) =>
          (ret = Ok /\ ai = pre)

(***************************************************************************)
(* C7. Bound words around the score: after score cp n or score mate n read *)
(* from a key, with upperbound or lowerbound either between the specifier  *)
(* and the number or right after the number, the score is n in the variant *)
(* named and the score type is that bound; a bound word read in a score    *)
(* value state leaves the parser in that state.                            *)
(***************************************************************************)
Variant(specifier, n) ==
    [kind |-> IF specifier = "cp" THEN "Cp" ELSE "Mate", value |-> n]

BoundKind(word) == IF word = "upperbound" THEN "Upperbound" ELSE "Lowerbound"

ScoreValueStates == {"ScoreCp", "ScoreMate"}

C7_BoundAroundScore ==
    LET n == Len(line)
    IN /\ (n >= 4 /\ at[n - 3] = "Key" /\ line[n - 3] = "score"
              /\ line[n - 2] \in {"cp", "mate"}
              /\ Numeral(line[n - 1]) /\ line[n] \in BoundKeywords) =>
            /\ ~IsErr(ret)
            /\ at[n - 1] \in ScoreValueStates /\ at[n] = "Key"
            /\ ai.score = Variant(line[n - 2], line[n - 1])
            /\ ai.scoretype = BoundKind(line[n])
       /\ (n >= 4 /\ at[n - 3] = "Key" /\ line[n - 3] = "score"
              /\ line[n - 2] \in {"cp", "mate"}
              /\ line[n - 1] \in BoundKeywords /\ Numeral(line[n])) =>
            /\ ~IsErr(ret)
            /\ at[n - 1] \in ScoreValueStates /\ at[n] = at[n - 1]
            /\ ai.score = Variant(line[n - 2], line[n])
            /\ ai.scoretype = BoundKind(line[n - 1])
       /\ \A i \in 1..n :
            (at[i] \in ScoreValueStates /\ line[i] \in BoundKeywords) =>
               /\ i = n => ~IsErr(ret)
               /\ i < n => at[i + 1] = at[i]
               /\ (i = n /\ pc = "parsing") => ps = at[i]
       /\ (pc = "returned" /\ line = <<"info", "score", "cp", "12", "upperbound">>) =>
            (ret = Ok /\ ai.score = Cp("12") /\ ai.scoretype = "Upperbound")

\* the bound word after the number, on a record that held a mate score
C7_Witness ==
    /\ pc = "returned" /\ ret = Ok
    /\ line = <<"info", "score", "cp", "12", "upperbound">>
    /\ pre.score = Mate("5") /\ pre.scoretype = "Exact"
    /\ ai.score = Cp("12") /\ ai.scoretype = "Upperbound"

(***************************************************************************)
(* C8. done is not written by parse: from the call to the return, whatever *)
(* the line and the outcome, done is what it was when parse was called.    *)
(***************************************************************************)
C8_DoneUntouched == (pc # "idle") => ai.done = pre.done

\* a parse that changed the record and returned, done being set
C8_Witness ==
    /\ pc = "returned" /\ ret = Ok
    /\ pre.done = TRUE /\ ai.done = TRUE
    /\ ai # pre

(***************************************************************************)
(* C9. Trim law: set_trim stores a prefix of the text, of length at most   *)
(* the capacity, that ends where a token ends, and the longest such; the   *)
(* text "e2e4 e7e5 g1f3 b8c6" with capacity 9 or 10 gives "e2e4 e7e5".     *)
(***************************************************************************)
C9_TrimLaw ==
    (op = "set_trim") =>
        /\ IsPrefix(cell, arg)
        /\ Len(cell) <= cap
        /\ AtBoundary(arg, Len(cell), sep)
        /\ \A n \in 0..Len(arg) :
              (n <= cap /\ AtBoundary(arg, n, sep)) => n <= Len(cell)
        /\ (arg = "e2e4 e7e5 g1f3 b8c6" /\ sep = " " /\ cap \in {9, 10}) =>
              cell = "e2e4 e7e5"

\* C9 holds of every text longer than the capacity
C9_TrimLaw_longer_text ==
    (op = "set_trim" /\ Len(arg) > cap) => C9_TrimLaw

(***************************************************************************)
(* C10. set_trim keeps a text that fits: a text no longer than the         *)
(* capacity is stored whole.                                               *)
(***************************************************************************)
C10_KeepsFittingText ==
    (op = "set_trim" /\ Len(arg) <= cap) => cell = arg

\* what set_trim does to a text that fits: the last token is dropped
C10_DropsLastToken ==
    (op = "set_trim" /\ Len(arg) <= cap) =>
        /\ cell # arg \/ arg = ""
        /\ IsPrefix(cell, arg)
        /\ \A n \in 0..(Len(arg) - 1) :
              (n = 0 \/ Char(arg, n + 1) = sep) => n <= Len(cell)
        /\ Len(cell) = 0 \/ Char(arg, Len(cell) + 1) = sep

(***************************************************************************)
(* C11. Capacity invariant: whatever sequence of new, set, set_trim, reset *)
(* and conversions from text a cell of capacity N has gone through, its    *)
(* length is at most N; set (and the conversion) with a text longer than N *)
(* stores exactly its first N bytes.                                       *)
(***************************************************************************)
C11_CapacityInvariant ==
    /\ Len(cell) <= cap
    /\ (op \in {"set", "from"} /\ Len(arg) > cap) =>
          /\ Len(cell) = cap
          /\ \A i \in 1..cap : Char(cell, i) = Char(arg, i)

\* a move of six bytes set on a move-sized cell
C11_Witness ==
    /\ op = "set" /\ cap = UCI_MAX_LENGTH
    /\ Len(arg) = UCI_MAX_LENGTH + 1 /\ Len(cell) = UCI_MAX_LENGTH

(***************************************************************************)
(* C12. Cell round trip: a text no longer than the capacity, stored with   *)
(* set or with the conversion from text, reads back as the same text;      *)
(* to_opt is None exactly when the stored length is 0 and the stored text  *)
(* otherwise.                                                              *)
(***************************************************************************)
C12_RoundTrip ==
    /\ (op \in {"set", "from"} /\ Len(arg) <= cap) =>
          /\ String_from(cell) = arg
          /\ Cell_to_opt(cell) = IF arg = "" THEN None ELSE Some(arg)
    /\ (Cell_to_opt(cell) = None) <=> (Len(cell) = 0)
    /\ (Len(cell) > 0) => Cell_to_opt(cell) = Some(String_from(cell))

\* a move converted into a move-sized cell and read back
C12_Witness ==
    /\ op = "from" /\ cap = UCI_MAX_LENGTH /\ arg = "e2e4"
    /\ Cell_to_opt(cell) = Some("e2e4")

(***************************************************************************)
(* C13. Serialization round trip: for every record that parse and the      *)
(* setting of done can produce, from_serde of its to_serde equals it field *)
(* by field: done, the four text fields, the counters, the score, the      *)
(* bound kind and win/draw/loss.                                           *)
(***************************************************************************)
C13_SerdeRoundTrip ==
    /\ (pc \in {"encoded", "decoded"}) =>
          /\ ais.disposition = "AnalysisInfo"
          /\ ais.pv = pv(ai) /\ ais.bestmove = bestmove(ai)
    /\ (pc = "decoded") =>
          /\ DOMAIN decoded = DOMAIN ai
          /\ \A field \in DOMAIN ai : decoded[field] = ai[field]

\* a record that is done, with a mate score, a lower bound and a pv of two
\* moves, has gone through the adapter and back
C13_Witness ==
    /\ pc = "decoded" /\ ai.done /\ ai.score.kind = "Mate"
    /\ ai.scoretype = "Lowerbound" /\ pv(decoded) = Some("e2e4 e7e5")
    /\ ponder(decoded) = Some("e7e5") /\ currmove(decoded) = None

(***************************************************************************)
(* Vocabulary of the driver's properties.                                  *)
(***************************************************************************)
StartsWith(text, head) ==
    IF Len(text) >= Len(head) THEN Prefix(text, Len(head)) = head ELSE FALSE

\* 1 for a setoption command, 2 for a position command, 3 for a go command
Rank(command) ==
    CASE StartsWith(command, "setoption name ") -> 1
      [] StartsWith(command, "position ") -> 2
      [] command = "go" \/ StartsWith(command, "go ") -> 3
      [] OTHER -> 0

Commands(rank) == {i \in 1..Len(issued) : Rank(issued[i].command) = rank}

\* go has issued its last command and waits on the channel, or has returned
Waited == pc_go \in {"recv", "returned"}

(***************************************************************************)
(* C14. Command ordering in go: one go call issues one setoption command   *)
(* per option pair of the job, then at most one position command, then     *)
(* exactly one go command, and nothing else; it waits on the channel only  *)
(* after the go command. While the subprocess runs every command issued is *)
(* written to it.                                                          *)
(***************************************************************************)
C14_CommandOrder ==
    /\ \A i \in 1..Len(issued) : Rank(issued[i].command) \in {1, 2, 3}
    /\ \A i, j \in 1..Len(issued) :
          (i < j) => Rank(issued[i].command) <= Rank(issued[j].command)
    /\ Cardinality(Commands(2)) <= 1
    /\ Cardinality(Commands(3)) = IF Waited THEN 1 ELSE 0
    /\ (pc_go = "go" \/ Waited) =>
          /\ Cardinality(Commands(1)) = Cardinality(DOMAIN job.uci_options)
          /\ \A key \in DOMAIN job.uci_options :
                \E i \in Commands(1) :
                   issued[i].command =
                      setoption_command(key, job.uci_options[key])
          /\ Cardinality(Commands(2)) = IF job.pos_spec = "No" THEN 0 ELSE 1
    /\ alive => \A i \in 1..Len(issued) : issued[i].written

\* an option, a position and the go command have been written and the call
\* waits
C14_Witness ==
    /\ pc_go = "recv" /\ alive /\ Len(issued) = 3
    /\ issued[1].command = "setoption name Threads value 2"
    /\ issued[2].command = "position fen 8/8 w"
    /\ issued[3].command = "go" /\ issued[3].written

(***************************************************************************)
(* C15. Insertion order is preserved: for a job built by uci_opt, go_opt   *)
(* and tc calls with distinct keys, go issues the setoption commands in    *)
(* the order the options were added and renders the arguments of the go    *)
(* command in the order they were added.                                   *)
(***************************************************************************)
Distinct(keys) ==
    \A i, j \in 1..Len(keys) : keys[i] = keys[j] => i = j

\* the pairs of a map in the order their keys were added
AddedPairs(added, map) ==
    [i \in 1..Len(added) |-> <<added[i], map[added[i]]>>]

C15_InsertionOrder ==
    (Waited /\ Distinct(uci_added) /\ Distinct(go_added)) =>
        /\ \A i \in 1..Len(uci_added) :
              issued[i].command =
                 setoption_command(uci_added[i], job.uci_options[uci_added[i]])
        /\ issued[Len(issued)].command =
              go_command(AddedPairs(go_added, job.go_options))

\* what go does keep: the commands are those of the pairs in one of the
\* orders the maps can yield them
C15_SomeOrder ==
    Waited =>
        /\ \E pairs \in HashMap_into_iter(job.uci_options) :
              \A i \in 1..Len(pairs) :
                 issued[i].command = setoption_command(pairs[i][1], pairs[i][2])
        /\ \E pairs \in HashMap_into_iter(job.go_options) :
              issued[Len(issued)].command = go_command(pairs)

(***************************************************************************)
(* C16. Position command: go issues "position startpos" for a start        *)
(* position job and "position startpos moves <moves>" when the job also    *)
(* has a move list, "position fen <fen>" for a FEN job and "position fen   *)
(* <fen> moves <moves>" with a move list, and no position command for a    *)
(* job without a position; each of the five shapes comes from some job     *)
(* that the builder makes.                                                 *)
(***************************************************************************)
PositionShapes == {"none", "startpos", "startpos moves", "fen", "fen moves"}

ShapeOf(go_job) ==
    CASE go_job.pos_spec = "Startpos" ->
            IF go_job.pos_moves.some THEN "startpos moves" ELSE "startpos"
      [] go_job.pos_spec = "Fen" ->
            IF go_job.pos_moves.some THEN "fen moves" ELSE "fen"
      [] OTHER -> "none"

\* the position command the claim gives for a job
Expected(go_job) ==
    CASE ShapeOf(go_job) = "startpos" -> <<"position startpos">>
      [] ShapeOf(go_job) = "startpos moves" ->
            <<"position startpos moves " \o go_job.pos_moves.value>>
      [] ShapeOf(go_job) = "fen" ->
            <<"position fen " \o go_job.pos_fen.value>>
      [] ShapeOf(go_job) = "fen moves" ->
            <<"position fen " \o go_job.pos_fen.value \o " moves "
                \o go_job.pos_moves.value>>
      [] OTHER -> <<>>

\* the position commands go has issued are those the claim gives
C16_Rendering ==
    (pc_go = "go" \/ Waited) =>
        /\ Cardinality(Commands(2)) = Len(Expected(job))
        /\ \A i \in Commands(2) : issued[i].command = Expected(job)[1]

C16_PositionCommand ==
    /\ C16_Rendering
    /\ \A shape \in PositionShapes :
          \E go_job \in BuiltJobs(MaxBuild) : ShapeOf(go_job) = shape

\* the shapes the builder does make: no method of GoJob sets pos_moves
C16_ShapesBuilt ==
    /\ job.pos_moves = None
    /\ {ShapeOf(go_job) : go_job \in BuiltJobs(MaxBuild)} =
          {"none", "startpos", "fen"}

(***************************************************************************)
(* C18. Bestmove line decoding: go splits the line it received on single   *)
(* spaces; the best move is the token at index 1 exactly when there are at *)
(* least 2 tokens, the ponder the token at index 3 exactly when there are  *)
(* at least 4; each is absent otherwise.                                   *)
(***************************************************************************)
\* the tokens of a text split on single spaces: one more than its spaces
TokenCount(text) ==
    Cardinality({i \in 1..Len(text) : Char(text, i) = " "}) + 1

\* the token at an index, counted from 0
TokenAt(text, index) == Split(text)[index + 1]

Answer(best, pondered) == [bestmove |-> best, ponder |-> pondered]

C18_BestmoveDecoding ==
    (pc_go = "returned" /\ received.ok) =>
        /\ go_result.bestmove =
              IF TokenCount(received.line) >= 2
              THEN Some(TokenAt(received.line, 1)) ELSE None
        /\ go_result.ponder =
              IF TokenCount(received.line) >= 4
              THEN Some(TokenAt(received.line, 3)) ELSE None
        /\ (received.line = "bestmove e2e4 ponder e7e5") =>
              go_result = Answer(Some("e2e4"), Some("e7e5"))
        /\ (received.line = "bestmove d2d4") =>
              go_result = Answer(Some("d2d4"), None)
        /\ (received.line = "bestmove g1f3 ponder") =>
              go_result = Answer(Some("g1f3"), None)
        /\ (received.line = "bestmove") => go_result = Answer(None, None)

\* a line of three tokens was received: a best move and no ponder
C18_Witness ==
    /\ pc_go = "returned" /\ received = RecvOk("bestmove g1f3 ponder")
    /\ go_result.bestmove = Some("g1f3") /\ go_result.ponder = None

(***************************************************************************)
(* C19. Degraded path: when go waits on a channel that is disconnected     *)
(* (the reader has ended) and holds no line, what it returns is a result   *)
(* with best move and ponder absent; go has no error to return.            *)
(***************************************************************************)
Disconnected == reader # "running" /\ Len(chan) = 0

C19_DegradedPath ==
    [][(pc_go = "recv" /\ Disconnected /\ pc_go' # "recv") =>
          /\ pc_go' = "returned"
          /\ received' = RecvErr
          /\ go_result' = Answer(None, None)]_vars

\* the subprocess exited before go was called, the reader saw the end of
\* its output, and the go call has returned
C19_Witness ==
    /\ pc_go = "returned" /\ reader = "eof" /\ ~alive /\ emitted = 0
    /\ received = RecvErr /\ go_result = Answer(None, None)
    /\ Len(issued) > 0 /\ \A i \in 1..Len(issued) : ~issued[i].written

(***************************************************************************)
(* C20. Reader end blocks callers: once the reader task has ended (end of  *)
(* the output stream or a read error) with no bestmove line pending, a go  *)
(* call made or in flight from then on never returns.                      *)
(***************************************************************************)
C20_ReaderEndBlocks ==
    [][(Disconnected /\ pc_go # "returned") => pc_go' # "returned"]_vars

\* C20 as amended: once the reader task has ended with no bestmove line
\* pending, a go call that waits on the channel returns, with best move
\* and ponder absent
C20_ReaderEndReturnsAbsent ==
    (pc_go = "recv" /\ Disconnected) ~>
        (pc_go = "returned" /\ received = RecvErr
            /\ go_result = Answer(None, None))

\* the reader failed while the subprocess was running and silent, and the
\* go call that was waiting has returned
C20_Witness ==
    /\ pc_go = "returned" /\ reader = "failed" /\ alive /\ emitted = 0
    /\ received = RecvErr /\ go_result = Answer(None, None)
    /\ Len(issued) > 0 /\ \A i \in 1..Len(issued) : issued[i].written

(***************************************************************************)
(* C17. Happy path: if the channel is empty when go is called and the      *)
(* subprocess, after it has received the go command of the call, writes    *)
(* the line "bestmove e2e4 ponder e7e5", then, the reader task being       *)
(* scheduled, the call returns, with best move e2e4 and ponder e7e5.       *)
(***************************************************************************)
TheAnswer == "bestmove e2e4 ponder e7e5"

\* the lines written by the subprocess that no go call has received
Unreceived ==
    {pipe[i] : i \in 1..Len(pipe)} \cup {chan[i] : i \in 1..Len(chan)}

\* the subprocess has answered the go command of this call with TheAnswer
\* and with no other bestmove line
Answered ==
    /\ \/ \E l \in Unreceived : l.text = TheAnswer /\ l.after = calls
       \/ /\ pc_go = "returned"
          /\ received = RecvOk(TheAnswer) /\ received_after = calls
    /\ \A l \in Unreceived :
          (Forwarded(l.text) /\ l.after = calls) => l.text = TheAnswer
    /\ (pc_go = "returned" /\ received.ok /\ received_after = calls) =>
          received.line = TheAnswer

\* the reader task has a worker to run on and has met no read error
ReaderScheduled == ~shared_worker /\ reader # "failed"

\* the result of C17: a call that found the channel empty, was answered
\* and has returned, has returned the answer
C17_HappyPath ==
    (pc_go = "returned" /\ calls >= 1 /\ chan_at_call = <<>>
        /\ ReaderScheduled /\ Answered) =>
            go_result = Answer(Some("e2e4"), Some("e7e5"))

\* no bestmove line written before the go command of this call is unread
NothingStale ==
    \A l \in Unreceived : Forwarded(l.text) => l.after = calls

\* C17 holds of a call that has no line of before its go command ahead of
\* it, in the channel or still in the pipe
C17_HappyPath_nothing_stale ==
    (pc_go = "recv" /\ chan_at_call = <<>> /\ ReaderScheduled
        /\ Answered /\ NothingStale) ~>
            (\/ /\ pc_go = "returned"
                /\ go_result = Answer(Some("e2e4"), Some("e7e5"))
             \/ reader = "failed")

\* the channel was empty at the call, yet the call returned a line that
\* the subprocess wrote before the go command
C17_StaleLineReturned ==
    /\ pc_go = "returned" /\ chan_at_call = <<>> /\ ReaderScheduled
    /\ Answered /\ received.ok /\ received_after < calls

(***************************************************************************)
(* C21. No timeout or cancellation: a go call returns only when it has     *)
(* taken a line from the hand-off channel or has found the channel         *)
(* disconnected; while the subprocess is alive, the reader task has its    *)
(* output open and no line is on the channel, the call does not return.    *)
(***************************************************************************)
GoReturns == pc_go # "returned" /\ pc_go' = "returned"

OutputOpen == alive /\ reader = "running"

C21_NoTimeout ==
    [][/\ GoReturns =>
            /\ pc_go = "recv"
            /\ \/ /\ Len(chan) > 0
                  /\ received' = RecvOk(Head(chan).text)
                  /\ chan' = Tail(chan)
               \/ /\ Disconnected
                  /\ received' = RecvErr
       /\ (OutputOpen /\ Len(chan) = 0) => ~GoReturns]_vars

\* the subprocess is alive and has written all it writes, none of it a
\* bestmove line; the reader has read it all and go is still waiting
C21_Witness ==
    /\ pc_go = "recv" /\ OutputOpen
    /\ emitted = MaxOut /\ pipe = <<>> /\ chan = <<>>
    /\ go_received = calls

(***************************************************************************)
(* C22. Write failures are surfaced: when the write of a setoption,        *)
(* position or go command to the subprocess input fails during a go call,  *)
(* the call returns an I/O error and does not go on to wait for a line.    *)
(***************************************************************************)
\* what go returns: its one return statement is Ok(GoResult { .. })
GoReturn == [ok |-> TRUE, value |-> go_result]

WriteFailed == \E i \in 1..Len(issued) : ~issued[i].written

C22_WriteFailuresSurfaced ==
    WriteFailed => (pc_go = "returned" /\ ~GoReturn.ok)

\* what the code does with a failed write: the call goes on, and returns Ok
\* when the channel gives it a line or is disconnected
C22_WriteFailuresDropped ==
    /\ [][(WriteFailed /\ pc_go = "options") =>
             pc_go' \in {"options", "go"}]_vars
    /\ [][(WriteFailed /\ pc_go = "go") => pc_go' \in {"go", "recv"}]_vars
    /\ [](pc_go = "returned" => GoReturn.ok)

(***************************************************************************)
(* C23. Reader filter: every line on the hand-off channel is an output     *)
(* line of at least 8 characters, the first 8 being "bestmove"; the reader *)
(* takes the output lines one by one in the order they were written, puts  *)
(* each such line at the end of the channel, once, and nothing else.       *)
(***************************************************************************)
IsBestmoveLine(text) ==
    /\ Len(text) >= 8
    /\ <<Char(text, 1), Char(text, 2), Char(text, 3), Char(text, 4),
         Char(text, 5), Char(text, 6), Char(text, 7), Char(text, 8)>>
          = <<"b", "e", "s", "t", "m", "o", "v", "e">>

\* the output lines are read from the front of the pipe, written at its end
PipeIsFifo ==
    \/ pipe' = pipe
    \/ \E l \in OutLines \X (0..MaxCalls) :
          pipe' = Append(pipe, [text |-> l[1], after |-> l[2]])
    \/ Len(pipe) > 0 /\ pipe' = Tail(pipe)

\* a line is read: it goes to the end of the channel if it is a bestmove
\* line, nowhere if it is not
ReadAndFiltered ==
    (Len(pipe) > 0 /\ pipe' = Tail(pipe)) =>
        IF IsBestmoveLine(Head(pipe).text)
        THEN chan' = Append(chan, Head(pipe))
        ELSE chan' = chan

\* the channel grows by a line that is read, and only so
ChannelFedByReader ==
    \/ chan' = chan
    \/ Len(chan) > 0 /\ chan' = Tail(chan) /\ pipe' = pipe
    \/ /\ Len(pipe) > 0 /\ pipe' = Tail(pipe)
       /\ chan' = Append(chan, Head(pipe))

C23_ReaderFilter ==
    /\ [](\A i \in 1..Len(chan) : IsBestmoveLine(chan[i].text))
    /\ [][PipeIsFifo /\ ReadAndFiltered /\ ChannelFedByReader]_vars

\* an info line and a bestmove line were written; both were read, and the
\* bestmove line alone is on the channel
C23_Witness ==
    /\ emitted = 2 /\ pipe = <<>>
    /\ Len(chan) = 1 /\ chan[1].text = "bestmove e2e4 ponder e7e5"
    /\ pc_go = "build" /\ calls = 0

Specifiers == {"cp", "mate"}

\* line[i] is a specifier handled in the Score state and no bound word has
\* come after it
SpecifierStands(i) ==
    /\ at[i] = "Score" /\ line[i] \in Specifiers
    /\ \A j \in (i + 1)..Len(line) : line[j] \notin BoundKeywords

C25_SpecifierSetsExact ==
    /\ \A i \in 1..Len(line) :
          /\ (at[i] = "Score" /\ line[i] \in BoundKeywords /\ i = Len(line)) =>
                ps = "Score"
          /\ (at[i] = "Score" /\ line[i] \in Specifiers /\ i = Len(line)) =>
                ps = (IF line[i] = "cp" THEN "ScoreCp" ELSE "ScoreMate")
          /\ SpecifierStands(i) => ai.scoretype = "Exact"

\* C25 as the code has it: the key "score" sets the bound kind to exact; in
\* the Score state "cp" or "mate" selects the value state and leaves the
\* bound kind as it is, and a bound word sets its kind and keeps the Score
\* state; so once the specifier has been handled the bound kind is that of
\* the bound word just before it, exact if there is none, until a later
\* bound word or score key of the line
C25_SpecifierKeepsBound ==
    \A i \in 1..Len(line) :
        /\ (at[i] = "Score" /\ line[i] \in BoundKeywords /\ i = Len(line)) =>
              ps = "Score"
        /\ (at[i] = "Score" /\ line[i] \in Specifiers /\ i = Len(line)) =>
              ps = (IF line[i] = "cp" THEN "ScoreCp" ELSE "ScoreMate")
        /\ (at[i] = "Key" /\ line[i] = "score" /\ i = Len(line)) =>
              (ps = "Score" /\ ai.scoretype = "Exact")
        /\ (SpecifierStands(i) /\ \A j \in (i + 1)..Len(line) : line[j] # "score") =>
              ai.scoretype = (IF at[i - 1] = "Score" THEN BoundKind(line[i - 1])
                              ELSE "Exact")

\* "info score lowerbound cp 12" has been parsed: the bound kind is lower
C25_BoundBeforeSpecifier ==
    /\ pc = "returned" /\ ret = Ok
    /\ line = <<"info", "score", "lowerbound", "cp", "12">>
    /\ ai.score = Cp("12") /\ ai.scoretype = "Lowerbound"

(***************************************************************************)
(* C26. Each go call returns the answer to its own request: the bestmove   *)
(* line a go call returns was written by the subprocess after the go       *)
(* command of that call, and a line that was on the channel before the     *)
(* call is not returned as its result.                                     *)
(***************************************************************************)
ReturnedLine == [text |-> received.line, after |-> received_after]

C26_OwnAnswer ==
    (pc_go = "returned" /\ received.ok) =>
        /\ received_after = calls
        /\ \A i \in 1..Len(chan_at_call) : ReturnedLine # chan_at_call[i]

\* the second call returned the second bestmove line that the subprocess
\* wrote in answer to the first go command
C26_SurplusLineReturned ==
    /\ pc_go = "returned" /\ calls = 2 /\ received.ok
    /\ received_after = 1
    /\ chan_at_call = <<ReturnedLine>>
    /\ go_received = 2

(***************************************************************************)
(* C27. The wait inside go does not starve the reader: also when the       *)
(* caller's task and the reader task share one executor worker, a go call  *)
(* that waits lets the reader task run, so a bestmove line the subprocess  *)
(* has written is forwarded in the end and the go call returns in the end. *)
(***************************************************************************)
AwaitedLineWritten ==
    /\ pc_go = "recv" /\ reader = "running"
    /\ \E i \in 1..Len(pipe) : Forwarded(pipe[i].text)

C27_ReaderNotStarved == AwaitedLineWritten ~> pc_go = "returned"

\* with a worker of its own the reader task runs and the call returns
C27_ReturnsOnOwnWorker ==
    (AwaitedLineWritten /\ ~shared_worker) ~> pc_go = "returned"

\* the deadlock: go blocks the one worker in recv on an empty channel, the
\* line it waits for is in the pipe and the reader task cannot be polled
C27_Deadlock ==
    /\ shared_worker /\ AwaitedLineWritten /\ Len(chan) = 0
    /\ ~ENABLED Recv /\ ~ENABLED ReadLine /\ ~ENABLED ReadError

====
